---- MODULE Spec2Model ----
(***************************************************************************)
(* The chat front end of the RAG demo: the Next.js route handler           *)
(* app/api/chat/route.ts (POST) that forwards a question to the backend's  *)
(* /generate endpoint and reshapes its reply, and the chat page (ChatPage, *)
(* handleSubmit) that calls the route and keeps the message list.          *)
(*                                                                         *)
(* Strings the code takes apart (the typed question, a URL) are sequences: *)
(* a question is a sequence of one-character strings, a URL is the         *)
(* sequence of its '/'-separated segments.  An optional JSON field is a    *)
(* sequence of length 0 (undefined) or 1 (the value).  A JSON object whose *)
(* keys may be missing is a function on the keys it has.                   *)
(*                                                                         *)
(* The id of a message is kept beside the list: ids[k] is the id of        *)
(* messages[k].  The effect on [loading] runs with the step that changes   *)
(* loading.  Spec and SpecRoute hold the clock and the animation timer     *)
(* still; SpecUi lets them run, against a smaller set of backend replies.  *)
(***************************************************************************)
EXTENDS Integers, Sequences, FiniteSets, TLC

VARIABLES
    question,   \* ChatPage: the text of the input box
    loading,    \* ChatPage: a request is in flight
    messages,   \* ChatPage: the message list
    pagePc,     \* handleSubmit: "idle" or "awaiting" (suspended at await fetch)
    asked,      \* handleSubmit: the question its closure captured
    res,        \* handleSubmit: how its fetch of /api/chat settled
    now,        \* the browser: Date.now()
    ids,        \* ChatPage: ids[k] is messages[k].id
    showReferences, \* ChatPage: message id -> references shown
    loadingState,   \* ChatPage: the stage and dots of the loading animation
    stageIndex, \* the loading effect: the stageIndex of its closure
    pc,         \* POST, per invocation: where it is suspended
    req,        \* POST, per invocation: the body of the incoming Request
    frame,      \* POST: the local variables, per activation frame
    sent,       \* POST, per invocation: the body sent to the backend
    reply,      \* the backend: how the fetch of /generate settled, per invocation
    out         \* POST, per invocation: the response returned to the caller

vars == <<question, loading, messages, pagePc, asked, res,
          now, ids, showReferences, loadingState, stageIndex,
          pc, req, frame, sent, reply, out>>

pageVars == <<question, loading, messages, pagePc, asked, res,
              now, ids, showReferences, loadingState, stageIndex>>

routeVars == <<pc, req, frame, sent, reply, out>>

-----------------------------------------------------------------------------
(* Bounds and input sets *)

\* The number of non-blank questions a run submits.
MaxSubmits == 2

\* The value of Date.now() when the page is opened.
StartTime == 8

\* The number of milliseconds the clock advances in a run.
MaxTicks == 2

\* The invocations of POST that may be in progress at once.
Slots == {1, 2}

\* The invocation that serves the chat page.
PageSlot == 1

None == <<>>

Some(x) == <<x>>

IsSome(o) == Len(o) = 1

Get(o) == o[1]

-----------------------------------------------------------------------------
(* Strings *)

Whitespace == {" "}

\* String.prototype.toLowerCase on the characters the questions use.
LowerChar(c) ==
    CASE c = "W" -> "w"
      [] c = "R" -> "r"
      [] OTHER -> c

ToLowerCase(s) == [i \in 1..Len(s) |-> LowerChar(s[i])]

RECURSIVE TrimStart(_)
TrimStart(s) ==
    IF s # <<>> /\ Head(s) \in Whitespace THEN TrimStart(Tail(s)) ELSE s

RECURSIVE TrimEnd(_)
TrimEnd(s) ==
    IF s # <<>> /\ s[Len(s)] \in Whitespace
    THEN TrimEnd(SubSeq(s, 1, Len(s) - 1))
    ELSE s

NoTrim(s) == s

\* String.prototype.trim
Trim(s) == TrimEnd(TrimStart(s))

\* String.prototype.split(sep): the pieces between the separators, at least one.
RECURSIVE SplitFrom(_, _, _)
SplitFrom(s, sep, cur) ==
    IF s = <<>> THEN <<cur>>
    ELSE IF Head(s) = sep THEN <<cur>> \o SplitFrom(Tail(s), sep, <<>>)
    ELSE SplitFrom(Tail(s), sep, Append(cur, Head(s)))

Split(s, sep) == SplitFrom(s, sep, <<>>)

\* Array.prototype.slice(0, n)
Slice0(a, n) == SubSeq(a, 1, IF Len(a) < n THEN Len(a) ELSE n)

\* Array.prototype.join(sep)
RECURSIVE Join(_, _)
Join(a, sep) ==
    IF a = <<>> THEN <<>>
    ELSE IF Len(a) = 1 THEN a[1]
    ELSE a[1] \o <<sep>> \o Join(Tail(a), sep)

\* The values the input box takes: empty, whitespace only, and a question.
Q_Empty == <<>>

Q_Blank == <<" ", " ">>

Q_Returns == <<"W", "h", "a", "t", " ", "i", "s", " ", "a", " ", "R", "e", "t", "u", "r", "n">>

Questions == {Q_Empty, Q_Blank, Q_Returns}

-----------------------------------------------------------------------------
(* The backend's reply *)

Metrics == {"factual_accuracy", "relevance", "completeness", "context_usage"}

\* A URL as url.split('/') sees it; every split has at least one segment.
U_Returns == <<"", "faq", "returns">>

U_Shipping == <<"", "faq", "shipping", "">>

\* An element of references that is not a string (a number, null, an object).
NonString == <<>>

IsString(u) == Len(u) >= 1

RefLists ==
    {<<>>, <<U_Returns>>, <<U_Returns, U_Shipping>>,
     <<U_Returns, U_Returns>>, <<NonString>>}

ScoreObjects ==
    {[m \in Metrics |-> 7],
     [m \in Metrics |-> IF m = "relevance" THEN 11 ELSE 7],
     [m \in Metrics |-> IF m = "completeness" THEN -1 ELSE 9],
     [m \in {"factual_accuracy"} |-> 7],
     [m \in {} |-> 0]}

\* data.evaluation, each level of which may be missing.
Evaluations ==
    {None,
     Some([llm_evaluation |-> None]),
     Some([llm_evaluation |-> Some([scores |-> None])])}
    \cup {Some([llm_evaluation |-> Some([scores |-> Some(s)])]) : s \in ScoreObjects}

Answers == {None, Some("Returns accepted within 30 days.")}

\* The JSON value of a reply body: null, or an object with these fields.
JsonNull == [isObject |-> FALSE]

DataObjects ==
    [isObject : {TRUE}, answer : Answers,
     references : {None} \cup {Some(r) : r \in RefLists},
     evaluation : Evaluations]

\* How the fetch of /generate settles: it rejects, it never settles, or it
\* resolves to a response with a status and a body (JSON or not).
Outcomes ==
    {[kind |-> "reject"], [kind |-> "never"],
     [kind |-> "response", status |-> 500, body |-> [json |-> FALSE]],
     [kind |-> "response", status |-> 200, body |-> [json |-> FALSE]],
     [kind |-> "response", status |-> 200, body |-> [json |-> TRUE, data |-> JsonNull]]}
    \cup {[kind |-> "response", status |-> 200, body |-> [json |-> TRUE, data |-> d]] :
            d \in DataObjects}

\* Response.ok
Ok(status) == status \in 200..299

-----------------------------------------------------------------------------
(* The route handler POST, app/api/chat/route.ts *)

\* The bodies a caller may post: not JSON, or an object with or without question.
Bodies ==
    {[json |-> FALSE], [json |-> TRUE, question |-> None],
     [json |-> TRUE, question |-> Some(Q_Returns)],
     [json |-> TRUE, question |-> Some(Q_Blank)]}

\* JSON.stringify({ question }): an undefined question is left out.
Stringify(q) == [json |-> TRUE, question |-> q]

\* url.split('/').pop() || url
PageTitle(url) ==
    LET last == url[Len(url)]
    IN  IF last # "" THEN <<last>> ELSE url

Reference(url) == [page_url |-> url, page_title |-> PageTitle(url)]

\* data.references.map(...)
MapReferences(refs) == [i \in 1..Len(refs) |-> Reference(refs[i])]

DefaultScores == [m \in Metrics |-> 0]

\* data.evaluation?.llm_evaluation?.scores
ScoresOf(data) ==
    IF ~IsSome(data.evaluation) THEN None
    ELSE IF ~IsSome(Get(data.evaluation).llm_evaluation) THEN None
    ELSE Get(Get(data.evaluation).llm_evaluation).scores

ScoresNoDefault(data) ==
    IF IsSome(ScoresOf(data)) THEN Get(ScoresOf(data)) ELSE [m \in {} |-> 0]

\* data.evaluation?.llm_evaluation?.scores || { ...: 0 }; an object is truthy.
ScoresOrDefault(data) ==
    IF IsSome(ScoresOf(data)) THEN Get(ScoresOf(data)) ELSE DefaultScores

\* The property reads and calls of lines 32-35 that raise a TypeError.
Throws(data) ==
    \/ ~data.isObject
    \/ ~IsSome(data.references)
    \/ \E i \in 1..Len(Get(data.references)) : ~IsString(Get(data.references)[i])

\* NextResponse.json(value, {status}): an undefined property is not serialised.
JsonResponse(status, payload) == [status |-> status, payload |-> payload]

ErrorResponse == JsonResponse(500, [error |-> "Failed to process request"])

SuccessPayload(data) ==
    LET rest == [references |-> MapReferences(Get(data.references)),
                 scores |-> ScoresOrDefault(data)]
    IN  IF IsSome(data.answer) THEN ("answer" :> Get(data.answer)) @@ rest ELSE rest

\* Lines 22-50 on a settled response: the value POST returns.
Respond(response) ==
    IF ~Ok(response.status) THEN ErrorResponse
    ELSE IF ~response.body.json THEN ErrorResponse
    ELSE IF Throws(response.body.data) THEN ErrorResponse
    ELSE JsonResponse(200, SuccessPayload(response.body.data))

EmptyFrame == [question |-> None, response |-> None]

SharedFrame(i) == 1

\* The activation frame of invocation i: its locals are its own.
Frame(i) == i

\* A request arrives and POST runs to await request.json().
Arrive(i, body) ==
    /\ pc[i] = "idle"
    /\ pc' = [pc EXCEPT ![i] = "parsing"]
    /\ req' = [req EXCEPT ![i] = Some(body)]
    /\ frame' = [frame EXCEPT ![Frame(i)] = EmptyFrame]
    /\ UNCHANGED <<sent, reply, out>>

\* request.json() settles: line 10, then lines 12-20 up to await fetch.
POST_Question(i) ==
    /\ pc[i] = "parsing"
    /\ IF Get(req[i]).json
       THEN /\ frame' = [frame EXCEPT ![Frame(i)].question = Get(req[i]).question]
            /\ sent' = [sent EXCEPT ![i] = Some(Stringify(frame'[Frame(i)].question))]
            /\ pc' = [pc EXCEPT ![i] = "fetching"]
            /\ out' = out
       ELSE /\ out' = [out EXCEPT ![i] = Some(ErrorResponse)]
            /\ pc' = [pc EXCEPT ![i] = "done"]
            /\ UNCHANGED <<frame, sent>>
    /\ UNCHANGED <<req, reply>>

\* The backend: the fetch of /generate settles, or never will.
Backend(i) ==
    /\ pc[i] = "fetching"
    /\ reply[i] = None
    /\ \E o \in Outcomes : reply' = [reply EXCEPT ![i] = Some(o)]
    /\ UNCHANGED <<pc, req, frame, sent, out>>

\* await fetch resumes: line 14, then line 22 up to await response.text()/json().
POST_Response(i) ==
    /\ pc[i] = "fetching"
    /\ IsSome(reply[i])
    /\ Get(reply[i]).kind # "never"
    /\ IF Get(reply[i]).kind = "reject"
       THEN /\ out' = [out EXCEPT ![i] = Some(ErrorResponse)]
            /\ pc' = [pc EXCEPT ![i] = "done"]
            /\ frame' = frame
       ELSE /\ frame' = [frame EXCEPT ![Frame(i)].response = Some(Get(reply[i]))]
            /\ pc' = [pc EXCEPT ![i] = "reading"]
            /\ out' = out
    /\ UNCHANGED <<req, sent, reply>>

\* The body has been read: lines 23-25 or 28-43, and the catch of lines 44-50.
POST_Data(i) ==
    /\ pc[i] = "reading"
    /\ out' = [out EXCEPT ![i] =
                 IF IsSome(frame[Frame(i)].response)
                 THEN Some(Respond(Get(frame[Frame(i)].response)))
                 ELSE Some(ErrorResponse)]
    /\ pc' = [pc EXCEPT ![i] = "done"]
    /\ UNCHANGED <<req, frame, sent, reply>>

\* The invocation is over: its response is delivered and its frame is gone.
Finish(i) ==
    /\ pc' = [pc EXCEPT ![i] = "idle"]
    /\ req' = [req EXCEPT ![i] = None]
    /\ sent' = [sent EXCEPT ![i] = None]
    /\ reply' = [reply EXCEPT ![i] = None]
    /\ out' = [out EXCEPT ![i] = None]
    /\ frame' = [frame EXCEPT ![Frame(i)] = EmptyFrame]

RouteStep ==
    \E i \in Slots : POST_Question(i) \/ Backend(i) \/ POST_Response(i) \/ POST_Data(i)

\* Another caller of the route posts a body.
ClientRequest ==
    /\ \E i \in Slots, b \in Bodies : Arrive(i, b)
    /\ UNCHANGED pageVars

\* That caller receives the response.
ClientReceive ==
    /\ \E i \in Slots : pc[i] = "done" /\ Finish(i)
    /\ UNCHANGED pageVars

-----------------------------------------------------------------------------
(* The chat page, ChatPage and handleSubmit *)

\* question.toLowerCase().split(' ').slice(0, 3).join(' ')
QuestionTopic(q) == Join(Slice0(Split(ToLowerCase(q), " "), 3), " ")

UserMessage(q) == [type |-> "user", text |-> q]

ApologyText ==
    <<"I apologize, but I encountered an error while processing your request. Please try asking your question again.">>

ApologyMessage == [type |-> "agent", text |-> ApologyText]

\* A property of the parsed payload, undefined when the payload lacks it.
Prop(data, key) == IF key \in DOMAIN data THEN Some(data[key]) ELSE None

\* An object literal's optional property: left out of the message when undefined.
Field(key, value) == IF IsSome(value) THEN key :> Get(value) ELSE <<>>

\* `${questionTopic}. Here's what I found:\n\n${data.answer}`
AgentText(q, data) ==
    QuestionTopic(q) \o <<". Here's what I found:\n\n">>
        \o <<IF IsSome(Prop(data, "answer")) THEN data.answer ELSE "undefined">>

AgentMessage(q, data) ==
    Field("references", Prop(data, "references"))
        @@ Field("scores", Prop(data, "scores"))
        @@ [type |-> "agent", text |-> AgentText(q, data)]

ReplaceMessages(prev, m) == <<m>>

\* setMessages(prev => [...prev, m])
AppendMessage(prev, m) == Append(prev, m)

OkUnchecked(r) == r.kind = "response"

\* The try block goes on past line 112: the fetch resolved and res.ok holds.
ResOk(r) == r.kind = "response" /\ Ok(r.status)

NumUser == Cardinality({i \in 1..Len(messages) : messages[i].type = "user"})

NumAgent == Cardinality({i \in 1..Len(messages) : messages[i].type = "agent"})

\* disabled={loading} of the input.
InputDisabled == loading

\* disabled={loading} of the send button.
SendDisabled == loading

\* onChange of the input, which is disabled while loading.
SetQuestion ==
    /\ ~InputDisabled
    /\ \E v \in Questions : question' = v
    /\ UNCHANGED <<loading, messages, pagePc, asked, res>>
    /\ UNCHANGED <<now, ids, showReferences, loadingState, stageIndex>>
    /\ UNCHANGED routeVars

\* Number.prototype.toString: the decimal digits.
DecimalDigits == <<"0", "1", "2", "3", "4", "5", "6", "7", "8", "9">>

RECURSIVE NumberToString(_)
NumberToString(n) ==
    IF n < 10 THEN <<DecimalDigits[n + 1]>>
    ELSE NumberToString(n \div 10) \o <<DecimalDigits[(n % 10) + 1]>>

\* setLoadingState({ stage: null, dots: 0 }), also the initial state.
IdleLoadingState == [stage |-> "null", dots |-> 0]

\* onSubmit of the form, lines 90-110: up to await fetch('/api/chat').
HandleSubmit ==
    /\ ~(InputDisabled /\ SendDisabled)
    /\ pagePc = "idle"
    /\ NumUser < MaxSubmits
    /\ IF Trim(question) = <<>>
       THEN UNCHANGED vars
       ELSE /\ messages' = AppendMessage(messages, UserMessage(question))
            /\ question' = <<>>
            /\ loading' = TRUE
            /\ asked' = question
            /\ pagePc' = "awaiting"
            /\ res' = None
            /\ ids' = Append(ids, NumberToString(now))
            /\ stageIndex' = 0
            /\ UNCHANGED <<now, showReferences, loadingState>>
            /\ Arrive(PageSlot, Stringify(Some(question)))

\* Lines 112-138 once the fetch has settled as r.
Settle(r) ==
    /\ res' = Some(r)
    /\ messages' =
         IF ResOk(r)
         THEN AppendMessage(messages, AgentMessage(asked, r.payload))
         ELSE AppendMessage(messages, ApologyMessage)
    /\ loading' = FALSE
    /\ pagePc' = "idle"
    /\ asked' = <<>>
    /\ question' = question
    /\ ids' = Append(ids, NumberToString(now + 1))
    /\ showReferences' =
         IF ResOk(r)
         THEN (NumberToString(now + 1) :> FALSE) @@ showReferences
         ELSE showReferences
    /\ loadingState' = IdleLoadingState
    /\ stageIndex' = 0
    /\ now' = now

\* The route's response reaches the page.
HandleSubmit_Response ==
    /\ pagePc = "awaiting"
    /\ pc[PageSlot] = "done"
    /\ Settle([kind |-> "response"] @@ Get(out[PageSlot]))
    /\ Finish(PageSlot)

\* The page's fetch rejects: the request never reaches the route.
HandleSubmit_Reject ==
    /\ pagePc = "awaiting"
    /\ pc[PageSlot] = "parsing"
    /\ Settle([kind |-> "reject"])
    /\ Finish(PageSlot)

\* The stages of the loading effect, stages[0..2].
Stages == <<"understanding", "searching", "generating">>

DotsUnbounded(dots) == dots + 1

\* (prev.dots + 1) % 4
NewDots(dots) == (dots + 1) % 4

\* The interval of the loading effect fires: the updater of lines 55-64.  The
\* interval exists from the effect run with loading true to its cleanup.
AnimationTick ==
    /\ loading
    /\ LET newDots == NewDots(loadingState.dots)
           newIndex == IF newDots = 0
                       THEN (stageIndex + 1) % Len(Stages)
                       ELSE stageIndex
       IN  /\ stageIndex' = newIndex
           /\ loadingState' = [stage |-> Stages[newIndex + 1], dots |-> newDots]
    /\ UNCHANGED <<question, loading, messages, pagePc, asked, res>>
    /\ UNCHANGED <<now, ids, showReferences>>
    /\ UNCHANGED routeVars

\* getLoadingMessage: '' without a stage, else the stage's text and the dots.
LoadingMessage ==
    IF loadingState.stage = "null" THEN <<>>
    ELSE <<CASE loadingState.stage = "understanding" -> "Understanding your query"
             [] loadingState.stage = "searching" -> "Searching through knowledge base"
             [] loadingState.stage = "generating" -> "Generating helpful response">>
         \o [k \in 1..loadingState.dots |-> "."]

\* A millisecond passes.
ClockTick ==
    /\ now < StartTime + MaxTicks
    /\ now' = now + 1
    /\ UNCHANGED <<question, loading, messages, pagePc, asked, res>>
    /\ UNCHANGED <<ids, showReferences, loadingState, stageIndex>>
    /\ UNCHANGED routeVars

\* showReferences[id], undefined (falsy) for an id without an entry.
Shown(id) == id \in DOMAIN showReferences /\ showReferences[id]

\* onClick of the references button of message k, rendered for an agent
\* message with at least one reference.
ToggleReferences ==
    /\ \E k \in 1..Len(messages) :
         /\ messages[k].type = "agent"
         /\ "references" \in DOMAIN messages[k]
         /\ Len(messages[k].references) > 0
         /\ showReferences' = (ids[k] :> ~Shown(ids[k])) @@ showReferences
    /\ UNCHANGED <<question, loading, messages, pagePc, asked, res>>
    /\ UNCHANGED <<now, ids, loadingState, stageIndex>>
    /\ UNCHANGED routeVars

\* The replies of the backend that SpecUi draws from.
UiOutcomes ==
    {[kind |-> "reject"], [kind |-> "never"],
     [kind |-> "response", status |-> 500, body |-> [json |-> FALSE]],
     [kind |-> "response", status |-> 200, body |-> [json |-> TRUE, data |->
        [isObject |-> TRUE, answer |-> Some("Returns accepted within 30 days."),
         references |-> Some(<<U_Returns>>),
         evaluation |-> Some([llm_evaluation |->
                                Some([scores |-> Some([m \in Metrics |-> 7])])])]]],
     [kind |-> "response", status |-> 200, body |-> [json |-> TRUE, data |->
        [isObject |-> TRUE, answer |-> Some("Returns accepted within 30 days."),
         references |-> Some(<<>>), evaluation |-> None]]]}

\* The backend, answering from UiOutcomes.
BackendUi(i) ==
    /\ pc[i] = "fetching"
    /\ reply[i] = None
    /\ \E o \in UiOutcomes : reply' = [reply EXCEPT ![i] = Some(o)]
    /\ UNCHANGED <<pc, req, frame, sent, out>>

RouteNextUi ==
    /\ \E i \in Slots :
         POST_Question(i) \/ BackendUi(i) \/ POST_Response(i) \/ POST_Data(i)
    /\ UNCHANGED pageVars

-----------------------------------------------------------------------------
(* Specifications *)

Init ==
    /\ question = <<>>
    /\ loading = FALSE
    /\ messages = <<>>
    /\ pagePc = "idle"
    /\ asked = <<>>
    /\ res = None
    /\ now = StartTime
    /\ ids = <<>>
    /\ showReferences = [id \in {} |-> FALSE]
    /\ loadingState = IdleLoadingState
    /\ stageIndex = 0
    /\ pc = [i \in Slots |-> "idle"]
    /\ req = [i \in Slots |-> None]
    /\ frame = [i \in Slots |-> EmptyFrame]
    /\ sent = [i \in Slots |-> None]
    /\ reply = [i \in Slots |-> None]
    /\ out = [i \in Slots |-> None]

RouteNext == RouteStep /\ UNCHANGED pageVars

\* One browser on the chat page, served by the route and the backend.
Next ==
    \/ SetQuestion
    \/ HandleSubmit
    \/ HandleSubmit_Response
    \/ HandleSubmit_Reject
    \/ RouteNext

Spec == Init /\ [][Next]_vars

\* Callers of the route, each served by an invocation of its own.
NextRoute ==
    \/ ClientRequest
    \/ ClientReceive
    \/ RouteNext

SpecRoute == Init /\ [][NextRoute]_vars

\* The page with its clock, its animation timer and its references buttons.
NextUi ==
    \/ SetQuestion
    \/ HandleSubmit
    \/ HandleSubmit_Response
    \/ HandleSubmit_Reject
    \/ RouteNextUi
    \/ ClockTick
    \/ AnimationTick
    \/ ToggleReferences

SpecUi == Init /\ [][NextUi]_vars

-----------------------------------------------------------------------------
(* Properties *)

Last(seq) == seq[Len(seq)]

Is2xx(status) == status >= 200 /\ status <= 299

\* The reply of invocation i is a parsed JSON object.
ReplyObject(i) ==
    /\ IsSome(reply[i])
    /\ Get(reply[i]).kind = "response"
    /\ Is2xx(Get(reply[i]).status)
    /\ Get(reply[i]).body.json
    /\ Get(reply[i]).body.data.isObject

ReplyData(i) == Get(reply[i]).body.data

AllStrings(refs) == \A k \in 1..Len(refs) : refs[k] # NonString

\* A reply body that is not the {answer, references, ...} object of the contract.
Malformed(body) ==
    \/ ~body.json
    \/ ~body.data.isObject
    \/ body.data.answer = None
    \/ body.data.references = None
    \/ ~AllStrings(Get(body.data.references))

\* The request of invocation i failed hard.
HardFailure(i) ==
    \/ ~Get(req[i]).json
    \/ /\ IsSome(reply[i])
       /\ \/ Get(reply[i]).kind = "reject"
          \/ /\ Get(reply[i]).kind = "response"
             /\ \/ ~Is2xx(Get(reply[i]).status)
                \/ Malformed(Get(reply[i]).body)

\* C1: every response of POST is a success payload (2xx with answer, references
\* and scores) or an error payload with a non-2xx status, and a request whose
\* body cannot be parsed, whose backend fetch rejects, whose backend status is
\* not ok or whose backend reply is malformed gets status 500 with
\* {error: 'Failed to process request'}.
C1_ErrorOrSuccess ==
    \A i \in Slots :
        pc[i] = "done" =>
            LET r == Get(out[i])
            IN  /\ HardFailure(i) =>
                     /\ r.status = 500
                     /\ r.payload = [error |-> "Failed to process request"]
                /\ Is2xx(r.status) =>
                     {"answer", "references", "scores"} \subseteq DOMAIN r.payload
                /\ ~Is2xx(r.status) => "error" \in DOMAIN r.payload

\* C2: a 2xx response of the route to the page carries all of answer,
\* references and scores, whatever the backend replied.
C2_SuccessWellFormed ==
    (pc[PageSlot] = "done" /\ Is2xx(Get(out[PageSlot]).status)) =>
        /\ "answer" \in DOMAIN Get(out[PageSlot]).payload
        /\ "references" \in DOMAIN Get(out[PageSlot]).payload
        /\ "scores" \in DOMAIN Get(out[PageSlot]).payload

\* The fetch of /api/chat rejected or resolved with a status that is not ok.
FetchFailed(r) == r.kind = "reject" \/ ~Is2xx(r.status)

\* C3: after a request that failed hard (the fetch of /api/chat rejected or its
\* status was not ok) handleSubmit has appended, after the user message, exactly
\* one agent message: the fixed apology text, no references, no scores; and a
\* failure response of the route has a non-2xx status and an error field.
C3_HardFailureApology ==
    (pagePc = "idle" /\ IsSome(res) /\ FetchFailed(Get(res))) =>
        /\ Len(messages) >= 2
        /\ messages[Len(messages) - 1].type = "user"
        /\ Last(messages).type = "agent"
        /\ Last(messages).text = ApologyText
        /\ DOMAIN Last(messages) = {"type", "text"}
        /\ NumAgent = NumUser
        /\ Get(res).kind = "response" =>
             /\ ~Is2xx(Get(res).status)
             /\ "error" \in DOMAIN Get(res).payload
             /\ "answer" \notin DOMAIN Get(res).payload

C3_Witness ==
    /\ pagePc = "idle"
    /\ res = Some([kind |-> "response"] @@ ErrorResponse)
    /\ Len(messages) = 2
    /\ Last(messages) = ApologyMessage

\* The reply carries no evaluation result: evaluation, llm_evaluation or
\* scores is missing.
NoEvaluation(data) ==
    \/ data.evaluation = None
    \/ Get(data.evaluation).llm_evaluation = None
    \/ Get(Get(data.evaluation).llm_evaluation).scores = None

PageUrls(refs) == [k \in 1..Len(refs) |-> refs[k].page_url]

\* C4: an ok reply without an evaluation result is answered like the same
\* reply with one: when its references are a list of strings the response is
\* 2xx with the reply's answer and references and every score 0, and only a
\* reply whose references cannot be read is answered with an error.
C4_EvaluationSoftFailure ==
    \A i \in Slots :
        (pc[i] = "done" /\ ReplyObject(i) /\ NoEvaluation(ReplyData(i))) =>
            LET d == ReplyData(i)
                r == Get(out[i])
            IN  IF IsSome(d.references) /\ AllStrings(Get(d.references))
                THEN /\ Is2xx(r.status)
                     /\ Prop(r.payload, "answer") = d.answer
                     /\ PageUrls(r.payload.references) = Get(d.references)
                     /\ r.payload.scores = [m \in Metrics |-> 0]
                ELSE r.status = 500

C4_Witness ==
    /\ pc[PageSlot] = "done"
    /\ ReplyObject(PageSlot)
    /\ ReplyData(PageSlot).evaluation = Some([llm_evaluation |-> None])
    /\ ReplyData(PageSlot).references = Some(<<U_Returns, U_Shipping>>)
    /\ IsSome(ReplyData(PageSlot).answer)
    /\ Get(out[PageSlot]).status = 200

\* C5: every agent message that has scores has every score field.
C5_AllScoresPresent ==
    \A k \in 1..Len(messages) :
        "scores" \in DOMAIN messages[k] => DOMAIN messages[k].scores = Metrics

\* C6: every score of a stored agent message lies within 0..10.
C6_ScoresInScale ==
    \A k \in 1..Len(messages) :
        "scores" \in DOMAIN messages[k] =>
            \A m \in DOMAIN messages[k].scores :
                messages[k].scores[m] >= 0 /\ messages[k].scores[m] <= 10

\* The steps that carry the request in flight towards its settlement.
RequestProgress == HandleSubmit_Response \/ HandleSubmit_Reject \/ RouteNext

\* C7: a request never blocks: while loading, some step that carries the
\* request towards its settlement (and loading towards false) can be taken.
C7_NeverBlocks == loading => ENABLED RequestProgress

\* What POST returns for a request body and the way its own backend fetch settled.
Expected(body, rep) ==
    IF ~body.json THEN ErrorResponse
    ELSE IF Get(rep).kind = "reject" THEN ErrorResponse
    ELSE Respond(Get(rep))

\* C8: under every interleaving of two requests, the body sent to the backend
\* for a request carries that request's question, and its response is the one
\* that its own body and the backend's reply to it determine.
C8_RequestsIndependent ==
    \A i \in Slots :
        /\ IsSome(sent[i]) =>
             /\ Get(req[i]).json
             /\ Get(sent[i]).question = Get(req[i]).question
        /\ pc[i] = "done" => Get(out[i]) = Expected(Get(req[i]), reply[i])

C8_Witness ==
    /\ pc[1] = "done" /\ pc[2] = "done"
    /\ Get(req[1]) # Get(req[2])
    /\ IsSome(reply[1]) /\ IsSome(reply[2])
    /\ Get(reply[1]) # Get(reply[2])
    /\ Get(out[1]).status = 200 /\ Get(out[2]).status = 200
    /\ Get(out[1]) # Get(out[2])

\* The elements of a list in order of first appearance.
RECURSIVE Dedup(_)
Dedup(l) ==
    IF l = <<>> THEN <<>>
    ELSE LET front == Dedup(SubSeq(l, 1, Len(l) - 1))
         IN  IF \E k \in 1..Len(front) : front[k] = Last(l)
             THEN front
             ELSE Append(front, Last(l))

\* C9: the references of a success response are the URLs of the backend reply,
\* deduplicated, in order of first appearance.
C9_ReferencesDistinct ==
    (pc[PageSlot] = "done" /\ Is2xx(Get(out[PageSlot]).status)) =>
        PageUrls(Get(out[PageSlot]).payload.references)
            = Dedup(Get(ReplyData(PageSlot).references))

IsPrefix(a, b) == Len(a) <= Len(b) /\ SubSeq(b, 1, Len(a)) = a

C10_Shape ==
    /\ \A k \in 1..Len(messages) :
         messages[k].type = IF k % 2 = 1 THEN "user" ELSE "agent"
    /\ loading => NumUser = NumAgent + 1
    /\ ~loading => NumUser = NumAgent

C10_Step ==
    /\ IsPrefix(messages, messages')
    /\ Len(messages') <= Len(messages) + 1
    /\ (~loading /\ loading') =>
         messages' = Append(messages, UserMessage(question))
    /\ (loading /\ ~loading') =>
         /\ Len(messages') = Len(messages) + 1
         /\ Last(messages').type = "agent"
    /\ (loading <=> loading') => messages' = messages

\* C10: the message list is append-only; a submit of a non-blank question
\* appends exactly one user message and the settlement of its request exactly
\* one agent message after it; no other step changes the list; whenever no
\* request is in flight there are as many user as agent messages.
C10_AppendOnly == [][C10_Step]_vars /\ []C10_Shape

C10_Witness ==
    /\ ~loading
    /\ Len(messages) = 4
    /\ messages[2] # ApologyMessage
    /\ messages[4] = ApologyMessage


\* A question that is empty or whitespace only.
Blank(q) == \A k \in 1..Len(q) : q[k] = " "

C11_Shape ==
    /\ loading <=> pagePc = "awaiting"
    /\ loading <=> pc[PageSlot] # "idle"
    /\ Cardinality({i \in Slots : pc[i] # "idle"}) <= 1
    /\ InputDisabled <=> loading
    /\ SendDisabled <=> loading

C11_Step ==
    /\ (~loading /\ Blank(question)) =>
         /\ messages' = messages
         /\ loading' = loading
         /\ pagePc' = pagePc
         /\ pc' = pc
    /\ (~loading /\ loading') =>
         /\ ~Blank(question)
         /\ pc'[PageSlot] = "parsing"
    /\ (loading /\ ~loading') =>
         /\ IsSome(res')
         /\ pc'[PageSlot] = "idle"

\* C11: at most one request is in flight; loading is true exactly from the
\* submit of a non-blank question until its request has settled, on the
\* success and on the failure path; the input and the send button are
\* disabled exactly while loading; a submit of an empty or whitespace-only
\* question changes no message, starts no request and leaves loading alone.
C11_OneRequestInFlight == [][C11_Step]_vars /\ []C11_Shape

C11_Witness ==
    /\ ~loading
    /\ question = Q_Blank
    /\ Len(messages) = 2
    /\ IsSome(res)
    /\ ~ResOk(Get(res))


\* C12: the ids of the messages are pairwise distinct, whatever the times of
\* the submits and of the responses.
C12_IdsDistinct ==
    /\ Len(ids) = Len(messages)
    /\ \A k, l \in 1..Len(ids) : k # l => ids[k] # ids[l]

\* The stage after a stage, cyclically.
StageAfter(stage) ==
    CASE stage = "understanding" -> "searching"
      [] stage = "searching" -> "generating"
      [] stage = "generating" -> "understanding"
      [] OTHER -> "understanding"

\* A step in which the interval of the loading effect fired.
C13_IsTick == loading /\ loading' /\ loadingState' # loadingState

C13_Shape ==
    /\ loadingState.dots \in 0..3
    /\ loadingState.stage \in {"null", "understanding", "searching", "generating"}
    /\ ~loading =>
         /\ loadingState = [stage |-> "null", dots |-> 0]
         /\ LoadingMessage = <<>>

C13_StepAsClaimed ==
    C13_IsTick =>
        /\ loadingState'.dots = (loadingState.dots + 1) % 4
        /\ loadingState'.stage =
             IF loadingState'.dots = 0
             THEN StageAfter(loadingState.stage)
             ELSE loadingState.stage

C13_Step ==
    C13_IsTick =>
        /\ loadingState'.dots = (loadingState.dots + 1) % 4
        /\ loadingState'.stage =
             IF loadingState.stage = "null" THEN "understanding"
             ELSE IF loadingState'.dots = 0
             THEN StageAfter(loadingState.stage)
             ELSE loadingState.stage
        /\ loadingState.stage = "null" => loadingState'.dots = 1

====
